---- MODULE Spec2Model ----
(***************************************************************************)
(* Model of src/app.py: the Streamlit dashboard that loads two tab         *)
(* separated exports (agent sessions, user conversations), validates       *)
(* them, cleans and left-joins them, keeps the merged table in the session *)
(* state and renders filtered KPIs from it.                                *)
(*                                                                         *)
(* A table (pandas DataFrame) is [cols |-> set of column names,            *)
(* rows |-> sequence of rows], a row being a function from the column      *)
(* names to cells.  A cell is NA (NaN / NaT / pd.NA), Num(n), Str(text),   *)
(* Ts(<<day, minute>>) or Date(day).  A text is a sequence of chunks, a    *)
(* chunk being either the blank " " or a run of non-blank characters, so   *)
(* that str.strip() is computed and not assumed.                           *)
(***************************************************************************)
EXTENDS Integers, Sequences, FiniteSets, TLC

VARIABLES
    uploaded_users,     \* st.file_uploader(key="users_uploader"): a file or None
    uploaded_sessions,  \* st.file_uploader(key="sessions_uploader"): a file or None
    cache_clean,        \* the st.cache_data store of clean_and_prepare_data
    df_procesado,       \* st.session_state["df_procesado"], or None when unset
    active_tab,         \* st.session_state.active_tab
    rerun_pending,      \* a script run is scheduled (st.experimental_rerun)
    filtros,            \* the three filter widgets' state: Default or a value
    run,                \* what the last script run did in the upload tab
    view                \* what the last script run rendered in the dashboard tab

vars == <<uploaded_users, uploaded_sessions, cache_clean, df_procesado,
          active_tab, rerun_pending, filtros, run, view>>

-----------------------------------------------------------------------------
(* Cells *)

None == [none |-> TRUE]
NA == [na |-> TRUE]
Num(n) == [num |-> n]
Str(t) == [str |-> t]
Txt(s) == [str |-> <<s>>]
Ts(t) == [ts |-> t]
Date(d) == [date |-> d]

IsNum(c) == DOMAIN c = {"num"}
IsStr(c) == DOMAIN c = {"str"}
IsTs(c) == DOMAIN c = {"ts"}

RECURSIVE SumSeq(_)
SumSeq(s) == IF s = <<>> THEN 0 ELSE Head(s) + SumSeq(Tail(s))

RECURSIVE Concat(_)
Concat(ss) == IF ss = <<>> THEN <<>> ELSE Head(ss) \o Concat(Tail(ss))

Range(s) == {s[i] : i \in 1..Len(s)}

Column(df, col) == [i \in 1..Len(df.rows) |-> df.rows[i][col]]

\* df[col] = values, replacing the column or creating it
SetColumn(df, col, values) ==
    [cols |-> df.cols \cup {col},
     rows |-> [i \in 1..Len(df.rows) |->
                [c \in df.cols \cup {col} |->
                    IF c = col THEN values[i] ELSE df.rows[i][c]]]]

-----------------------------------------------------------------------------
(* Column names *)

ColId == "Id Sesión"
ColAgente == "Nombre Agente"
ColInicio == "Fecha/tiempo Inicio Sesión"
ColCola == "Cola"
ColCerradas == "Conversaciones cerradas"
ColConversacion == "Conversación con agente"
ColEspera == "Espera agente"
ColRespuestas == "Cantidad de respuestas"
ColTransferencias == "Transferencias realizadas"
ColAbandonada == "Abandonada por usuario"
ColTiempoRespuesta == "Tiempo medio de respuesta"
ColTipificacion == "Tipificación"
ColMensajesAgente == "Mensajes Agente"
ColMensajesUsuario == "Mensajes Usuario"
ColMensajesBot == "Mensajes Bot"
ColFecha == "Fecha"
\* The session-end timestamp column of the exports that carry one; the code
\* never names it
ColFin == "Fecha/tiempo Fin Sesión"
ColTipificacionUser == "Tipificación_user"

required_cols_sessions ==
    <<ColId, ColAgente, ColInicio, ColCola, ColCerradas, ColConversacion,
      ColEspera, ColRespuestas, ColTransferencias, ColAbandonada,
      ColTiempoRespuesta>>

required_cols_users == <<ColId, ColTipificacion, ColMensajesAgente>>

time_cols_sessions == <<ColConversacion, ColEspera>>

count_cols_sessions ==
    <<ColCerradas, ColRespuestas, ColTransferencias, ColAbandonada>>

count_cols_users == <<ColMensajesAgente, ColMensajesUsuario, ColMensajesBot>>

cols_to_merge ==
    <<ColId, ColTipificacion, ColMensajesAgente, ColMensajesUsuario,
      ColMensajesBot>>

\* suffixes=('_session', '_user') of pd.merge, for the columns that can collide
SuffixSession ==
    (ColTipificacion :> "Tipificación_session")
    @@ (ColMensajesAgente :> "Mensajes Agente_session")
    @@ (ColMensajesUsuario :> "Mensajes Usuario_session")
    @@ (ColMensajesBot :> "Mensajes Bot_session")

SuffixUser ==
    (ColTipificacion :> ColTipificacionUser)
    @@ (ColMensajesAgente :> "Mensajes Agente_user")
    @@ (ColMensajesUsuario :> "Mensajes Usuario_user")
    @@ (ColMensajesBot :> "Mensajes Bot_user")

queue_translations ==
    (<<"_default_">> :> <<"Default Queue">>)
    @@ (<<"default">> :> <<"Default Queue">>)
    @@ (<<"atencionAlCliente">> :> <<"Atención al cliente">>)

typification_translations ==
    (<<"abandoned-by-user">> :> <<"Sin respuesta del cliente">>)
    @@ (<<"finished">> :> <<"Finalizado">>)
    @@ (<<"order-placed">> :> <<"Venta finalizada">>)
    @@ (<<"inactividad-agente">> :> <<"Sin respuesta asesor">>)
    @@ (<<"order-booked">> :> <<"Reserva Realizada">>)

-----------------------------------------------------------------------------
(* pandas conversions *)

\* The numeric texts of the inputs and the numbers pd.to_numeric reads in them
NumericText ==
    ("0" :> 0) @@ ("1" :> 1) @@ ("2" :> 2) @@ ("3" :> 3) @@ ("-1" :> -1)
    @@ ("600" :> 600) @@ ("3600" :> 3600)

\* The timestamp texts of the inputs and what pd.to_datetime reads in them:
\* <<calendar day, minute of the day>>
TimestampText ==
    ("2024-01-01T10:00" :> <<20240101, 600>>)
    @@ ("2024-01-01T11:00" :> <<20240101, 660>>)
    @@ ("2024-01-02T09:00" :> <<20240102, 540>>)
    @@ ("2024-01-03T23:59" :> <<20240103, 1439>>)

\* Series.replace(old, new) on one cell
Replace(c, old, new) == IF c = old THEN new ELSE c

\* Series.replace(dict) on one cell: exact match of the whole value
ReplaceDict(c, dict) ==
    IF IsStr(c) /\ c.str \in DOMAIN dict THEN Str(dict[c.str]) ELSE c

\* pd.to_numeric(errors='coerce') on one cell
ToNumeric(c) ==
    IF IsNum(c) THEN c
    ELSE IF IsStr(c) /\ Len(c.str) = 1 /\ c.str[1] \in DOMAIN NumericText
         THEN Num(NumericText[c.str[1]])
         ELSE NA

\* Series.fillna(v) on one cell
FillNa(c, v) == IF c = NA THEN v ELSE c

\* pd.to_datetime(errors='coerce') on one cell
ToDatetime(c) ==
    IF IsTs(c) THEN c
    ELSE IF IsStr(c) /\ Len(c.str) = 1 /\ c.str[1] \in DOMAIN TimestampText
         THEN Ts(TimestampText[c.str[1]])
         ELSE NA

\* Series.dt.date on one cell
DtDate(c) == IF IsTs(c) THEN Date(c.ts[1]) ELSE NA

RECURSIVE LStrip(_)
LStrip(t) == IF t # <<>> /\ Head(t) = " " THEN LStrip(Tail(t)) ELSE t

RECURSIVE RStrip(_)
RStrip(t) ==
    IF t # <<>> /\ t[Len(t)] = " " THEN RStrip(SubSeq(t, 1, Len(t) - 1)) ELSE t

\* Series.str.strip() on one cell of an object column
StrStrip(c) == IF IsStr(c) THEN Str(RStrip(LStrip(c.str))) ELSE NA


\* A cleaner that coerces the counts and leaves the missing ones missing
CoerceCountKeepsMissing(c) == ToNumeric(Replace(c, Txt("-"), NA))

\* A cleaner that fills the missing response times with 0 as it does the counts
CoerceResponseTimeZeroFilled(c) ==
    FillNa(ToNumeric(Replace(c, Txt("-"), NA)), Num(0))

\* pd.to_numeric(col.replace('-', pd.NA), errors='coerce').fillna(0)
CoerceCount(c) == FillNa(ToNumeric(Replace(c, Txt("-"), NA)), Num(0))

\* pd.to_numeric(col.replace('-', pd.NA), errors='coerce')
CoerceResponseTime(c) == ToNumeric(Replace(c, Txt("-"), NA))

-----------------------------------------------------------------------------
(* Parsers: load_users_data, load_sessions_data.  An uploaded file is       *)
(* [name, readable, header, lines]: pd.read_csv raises on an unreadable     *)
(* file; header is the set of column names of the first line; lines are    *)
(* the well-formed lines after it, each a row over header.                  *)

load_users_data(uploaded_file) ==
    IF uploaded_file = None THEN None
    ELSE IF ~uploaded_file.readable THEN None
    ELSE [cols |-> uploaded_file.header, rows |-> uploaded_file.lines]

\* skiprows=[1]: the line after the header is not read
load_sessions_data(uploaded_file) ==
    IF uploaded_file = None THEN None
    ELSE IF ~uploaded_file.readable THEN None
    ELSE [cols |-> uploaded_file.header,
          rows |-> IF uploaded_file.lines = <<>> THEN <<>>
                   ELSE Tail(uploaded_file.lines)]

-----------------------------------------------------------------------------
(* Validator *)

\* missing = [col for col in required_cols if col not in df.columns]
check_missing_cols(df, required_cols, filename) ==
    LET missing == SelectSeq(required_cols, LAMBDA col : col \notin df.cols)
    IN  [ok |-> missing = <<>>,
         errors |-> IF missing = <<>> THEN <<>>
                    ELSE <<[file |-> filename, missing |-> missing]>>]


\* A validator that stops at the first file with a missing column
validate_dataframes_first_failure(df_sessions, df_users) ==
    LET is_sessions_valid ==
            check_missing_cols(df_sessions, required_cols_sessions,
                               "Sesiones de Agentes")
    IN  IF ~is_sessions_valid.ok THEN is_sessions_valid
        ELSE check_missing_cols(df_users, required_cols_users,
                                "Conversaciones de Usuarios")

\* The result and the st.error reports of validate_dataframes
validate_dataframes(df_sessions, df_users) ==
    LET is_sessions_valid ==
            check_missing_cols(df_sessions, required_cols_sessions,
                               "Sesiones de Agentes")
        is_users_valid ==
            check_missing_cols(df_users, required_cols_users,
                               "Conversaciones de Usuarios")
    IN  [ok |-> is_sessions_valid.ok /\ is_users_valid.ok,
         errors |-> is_sessions_valid.errors \o is_users_valid.errors]

-----------------------------------------------------------------------------
(* Cleaner and joiner: clean_and_prepare_data *)

Fault(e) == [raised |-> e]
IsFault(x) == DOMAIN x = {"raised"}
IsTable(x) == DOMAIN x = {"cols", "rows"}

\* lines 111-121: the numeric columns of the sessions table
CleanSessionRow(r) ==
    [c \in DOMAIN r |->
        IF c \in Range(time_cols_sessions \o count_cols_sessions)
        THEN CoerceCount(r[c])
        ELSE IF c = ColTiempoRespuesta THEN CoerceResponseTime(r[c])
        ELSE r[c]]

\* lines 124-127: the count columns of the users table
CleanUserRow(r) ==
    [c \in DOMAIN r |->
        IF c \in Range(count_cols_users) THEN CoerceCount(r[c]) ELSE r[c]]

\* lines 111-121 over the rows of the sessions table
CleanSessions(df) ==
    [cols |-> df.cols,
     rows |-> [i \in 1..Len(df.rows) |-> CleanSessionRow(df.rows[i])]]

\* lines 124-127 over the rows of the users table
CleanUsers(df) ==
    [cols |-> df.cols,
     rows |-> [i \in 1..Len(df.rows) |-> CleanUserRow(df.rows[i])]]


\* A cleaner that keeps the rows whose start timestamp did not parse
KeepNaInicio(rows) == rows

\* line 131: dropna(subset=['Fecha/tiempo Inicio Sesión'])
DropNaInicio(rows) == SelectSeq(rows, LAMBDA r : r[ColInicio] # NA)

\* line 130: parse the start timestamp
ParseInicio(df) ==
    SetColumn(df, ColInicio,
              [i \in 1..Len(df.rows) |-> ToDatetime(df.rows[i][ColInicio])])

\* line 132: the calendar date of the start timestamp
WithFecha(df) ==
    SetColumn(df, ColFecha,
              [i \in 1..Len(df.rows) |-> DtDate(df.rows[i][ColInicio])])

\* lines 130-132: parse the start timestamp, drop the rows without one and
\* derive the calendar date
PrepareDates(df) ==
    WithFecha([cols |-> df.cols, rows |-> DropNaInicio(ParseInicio(df).rows)])

\* The columns of the merged table: <<name, side, name in that side>>
MergedColumns(scols, ucols) ==
    {<<IF c \in ucols \ {ColId} THEN SuffixSession[c] ELSE c, "session", c>> :
        c \in scols}
    \cup
    {<<IF c \in scols THEN SuffixUser[c] ELSE c, "user", c>> :
        c \in ucols \ {ColId}}

\* One row of the merge: a session row with a user row, or with none
MergeRow(mcols, srow, urow) ==
    [n \in {t[1] : t \in mcols} |->
        LET t == CHOOSE t \in mcols : t[1] = n
        IN  IF t[2] = "session" THEN srow[t[3]]
            ELSE IF urow = None THEN NA ELSE urow[t[3]]]


\* An inner join: a session row without a user row gives no merged row
JoinInnerRow(mcols, srow, urows) ==
    LET matches == SelectSeq(urows, LAMBDA u : u[ColId] = srow[ColId])
    IN  [i \in 1..Len(matches) |-> MergeRow(mcols, srow, matches[i])]

\* A join that keeps one merged row for each session row
JoinFirstRow(mcols, srow, urows) ==
    LET matches == SelectSeq(urows, LAMBDA u : u[ColId] = srow[ColId])
    IN  IF matches = <<>> THEN <<MergeRow(mcols, srow, None)>>
        ELSE <<MergeRow(mcols, srow, matches[1])>>

\* The rows a left join emits for one session row, in the users' order
JoinLeftRow(mcols, srow, urows) ==
    LET matches == SelectSeq(urows, LAMBDA u : u[ColId] = srow[ColId])
    IN  IF matches = <<>> THEN <<MergeRow(mcols, srow, None)>>
        ELSE [i \in 1..Len(matches) |-> MergeRow(mcols, srow, matches[i])]

\* lines 136-142: pd.merge(left, right, on='Id Sesión', how='left', suffixes)
Merge(left, right) ==
    LET mcols == MergedColumns(left.cols, right.cols)
    IN  [cols |-> {t[1] : t \in mcols},
         rows |-> Concat([i \in 1..Len(left.rows) |->
                            JoinLeftRow(mcols, left.rows[i], right.rows)])]

\* df[cols]: the projection on a list of columns
Project(df, cols) ==
    [cols |-> Range(cols),
     rows |-> [i \in 1..Len(df.rows) |-> [c \in Range(cols) |-> df.rows[i][c]]]]

\* line 143: fillna('Sin Cola').str.strip(); line 161: replace(queue_translations)
CleanCola(c) ==
    ReplaceDict(StrStrip(FillNa(c, Txt("Sin Cola"))), queue_translations)

\* lines 143-164: the queue and typification labels of the merged table; a
\* column that is looked up and is not there raises KeyError
TranslateLabels(df_merged) ==
    IF ColCola \notin df_merged.cols THEN Fault("KeyError")
    ELSE IF ColTipificacionUser \notin df_merged.cols THEN Fault("KeyError")
    ELSE SetColumn(
            SetColumn(df_merged, ColCola,
                      [i \in 1..Len(df_merged.rows) |->
                          CleanCola(df_merged.rows[i][ColCola])]),
            ColTipificacionUser,
            [i \in 1..Len(df_merged.rows) |->
                ReplaceDict(df_merged.rows[i][ColTipificacionUser],
                            typification_translations)])

\* line 143: the .str accessor raises AttributeError on a column that is not
\* of texts.  read_csv gives the queue column a numeric dtype when it holds
\* numbers and no text; fillna('Sin Cola') turns it into a column of objects
\* only when a row that is left has no queue
StrAccessorRaises(df_sessions) ==
    /\ \E i \in 1..Len(df_sessions.rows) : IsNum(df_sessions.rows[i][ColCola])
    /\ \A i \in 1..Len(df_sessions.rows) :
        /\ ~IsStr(df_sessions.rows[i][ColCola])
        /\ ToDatetime(df_sessions.rows[i][ColInicio]) # NA =>
            df_sessions.rows[i][ColCola] # NA

\* The function's body, lines 104-164
clean_and_prepare_data(df_sessions, df_users) ==
    IF ColInicio \notin df_sessions.cols THEN Fault("KeyError")
    ELSE IF ~(Range(cols_to_merge) \subseteq df_users.cols) THEN Fault("KeyError")
    ELSE IF ColId \notin df_sessions.cols THEN Fault("KeyError")
    ELSE IF ColCola \in df_sessions.cols /\ StrAccessorRaises(df_sessions)
    THEN Fault("AttributeError")
    ELSE TranslateLabels(
            Merge(PrepareDates(CleanSessions(df_sessions)),
                  Project(CleanUsers(df_users), cols_to_merge)))

-----------------------------------------------------------------------------
(* Dashboard tab: filter widgets, df_filtrado and the KPIs *)

Default == [default |-> TRUE]

\* df[col].unique(): the distinct values
Unique(df, col) == Range(Column(df, col))

\* sorted(values) raises TypeError when it has to compare NaN (a float) with
\* a text
SortedRaises(values) == NA \in values /\ Cardinality(values) > 1

Dates(df) == {c.date : c \in Range(Column(df, ColFecha))}

Min(S) == CHOOSE x \in S : \A y \in S : x <= y
Max(S) == CHOOSE x \in S : \A y \in S : x >= y

\* The value a widget returns: what the user set it to if it is still the
\* same widget (same options), else its default
WidgetValue(state, options, default) ==
    IF state # Default /\ state.options = options THEN state.value ELSE default

\* The widget's state after a run that rendered it with these options
WidgetKeep(state, options) ==
    IF state # Default /\ state.options = options THEN state ELSE Default


\* A date filter that leaves out the last day of the range
DfFiltradoBeforeEnd(df, agentes_seleccionados, colas_seleccionadas, fecha_seleccionada) ==
    [cols |-> df.cols,
     rows |-> SelectSeq(df.rows, LAMBDA r :
                /\ r[ColAgente] \in agentes_seleccionados
                /\ r[ColCola] \in colas_seleccionadas
                /\ r[ColFecha].date >= fecha_seleccionada[1]
                /\ r[ColFecha].date < fecha_seleccionada[2])]

\* lines 263-268
DfFiltrado(df, agentes_seleccionados, colas_seleccionadas, fecha_seleccionada) ==
    [cols |-> df.cols,
     rows |-> SelectSeq(df.rows, LAMBDA r :
                /\ r[ColAgente] \in agentes_seleccionados
                /\ r[ColCola] \in colas_seleccionadas
                /\ r[ColFecha].date >= fecha_seleccionada[1]
                /\ r[ColFecha].date <= fecha_seleccionada[2])]

\* Series.sum(): the missing values are skipped
SumCol(df, col) ==
    SumSeq([i \in 1..Len(df.rows) |->
              IF IsNum(df.rows[i][col]) THEN df.rows[i][col].num ELSE 0])

\* Series.mean(): <<sum, count>> of the values that are not missing, or NA
\* when there is none
MeanCol(df, col) ==
    LET valid == SelectSeq(Column(df, col), IsNum)
    IN  IF valid = <<>> THEN NA
        ELSE [sum |-> SumSeq([i \in 1..Len(valid) |-> valid[i].num]),
              count |-> Len(valid)]

\* n / d rounded to the nearest integer (d > 0), as the format specs round
RoundDiv(n, d) == (2 * n + d) \div (2 * d)


\* A rate that divides whenever the total of closed conversations is not 0
AbandonRateNonZero(total_abandons, total_conversations) ==
    IF total_conversations > 0
    THEN [num |-> total_abandons * 100, den |-> total_conversations]
    ELSE IF total_conversations < 0
    THEN [num |-> 0 - total_abandons * 100, den |-> 0 - total_conversations]
    ELSE [num |-> 0, den |-> 1]

\* line 280: the rate as the fraction num / den
AbandonRate(total_abandons, total_conversations) ==
    IF total_conversations > 0
    THEN [num |-> total_abandons * 100, den |-> total_conversations]
    ELSE [num |-> 0, den |-> 1]

\* line 286: avg_response_time_hours as the fraction num / den
AvgResponseTimeHours(avg_response_time_seconds) ==
    IF avg_response_time_seconds # NA
    THEN [num |-> avg_response_time_seconds.sum,
          den |-> avg_response_time_seconds.count * 3600]
    ELSE [num |-> 0, den |-> 1]

\* line 313: the value of the "Tiempo Medio de Respuesta" metric, in
\* hundredths of an hour, or N/A
ResponseTimeMetric(avg_response_time_hours) ==
    IF avg_response_time_hours.num > 0
    THEN [hundredths |-> RoundDiv(avg_response_time_hours.num * 100,
                                  avg_response_time_hours.den)]
    ELSE [text |-> "N/A"]

\* lines 278-315: the KPIs, from the sums and the means
KpisOf(total_conversations, total_abandons, total_transfers, avg_handle_time_seconds, avg_response_time_seconds, avg_response_time_hours) ==
    [total_conversations |-> total_conversations,
     total_abandons |-> total_abandons,
     abandon_rate |-> AbandonRate(total_abandons, total_conversations),
     total_transfers |-> total_transfers,
     avg_handle_time_seconds |-> avg_handle_time_seconds,
     avg_response_time_seconds |-> avg_response_time_seconds,
     avg_response_time_hours |-> avg_response_time_hours,
     response_time_metric |-> ResponseTimeMetric(avg_response_time_hours)]

MeanResponseTime(df_filtrado) == MeanCol(df_filtrado, ColTiempoRespuesta)

\* lines 278-315: the KPIs of a non-empty df_filtrado
Kpis(df_filtrado) ==
    KpisOf(SumCol(df_filtrado, ColCerradas),
           SumCol(df_filtrado, ColAbandonada),
           SumCol(df_filtrado, ColTransferencias),
           MeanCol(df_filtrado, ColConversacion),
           MeanResponseTime(df_filtrado),
           AvgResponseTimeHours(MeanResponseTime(df_filtrado)))

\* The rows of one group of df.groupby(['Fecha', 'Nombre Agente'])
DayAgentRows(df, fecha, agente) ==
    [cols |-> df.cols,
     rows |-> SelectSeq(df.rows, LAMBDA r :
                r[ColFecha] = fecha /\ r[ColAgente] = agente)]

\* A count of the distinct session ids of each day and agent
DailyDistinctIds(df_filtrado) ==
    {[Fecha |-> g[1], Nombre_Agente |-> g[2],
      total_conversations |->
        Cardinality(Range(Column(DayAgentRows(df_filtrado, g[1], g[2]), ColId)))] :
        g \in {<<df_filtrado.rows[i][ColFecha], df_filtrado.rows[i][ColAgente]>> :
                i \in {j \in 1..Len(df_filtrado.rows) :
                        df_filtrado.rows[j][ColAgente] # NA}}}

\* lines 321-325: daily_volume, one row for each start date and agent of
\* df_filtrado (groupby leaves out the rows whose key is missing) with the
\* sum of its closed conversations
DailyVolume(df_filtrado) ==
    {[Fecha |-> g[1], Nombre_Agente |-> g[2],
      total_conversations |->
        SumCol(DayAgentRows(df_filtrado, g[1], g[2]), ColCerradas)] :
        g \in {<<df_filtrado.rows[i][ColFecha], df_filtrado.rows[i][ColAgente]>> :
                i \in {j \in 1..Len(df_filtrado.rows) :
                        df_filtrado.rows[j][ColAgente] # NA}}}

\* The rows of one group of df.groupby('Nombre Agente')
AgentRows(df, agente) ==
    [cols |-> df.cols,
     rows |-> SelectSeq(df.rows, LAMBDA r : r[ColAgente] = agente)]

\* lines 373-379: agent_performance, one row for each agent of df_filtrado;
\* agg raises KeyError when the table has no 'Mensajes Agente' column
AgentPerformance(df_filtrado) ==
    IF ColMensajesAgente \notin df_filtrado.cols THEN Fault("KeyError")
    ELSE [rows |->
         {[Nombre_Agente |-> a,
           total_conversations |-> SumCol(AgentRows(df_filtrado, a), ColCerradas),
           avg_handle_time |-> MeanCol(AgentRows(df_filtrado, a), ColConversacion),
           avg_response_time |->
                MeanCol(AgentRows(df_filtrado, a), ColTiempoRespuesta),
           total_transfers |->
                SumCol(AgentRows(df_filtrado, a), ColTransferencias),
           total_messages |->
                SumCol(AgentRows(df_filtrado, a), ColMensajesAgente)] :
            a \in Range(Column(df_filtrado, ColAgente)) \ {NA}}]

NoWidgets == [agentes |-> Default, colas |-> Default, fecha |-> Default]

FaultView(e) == [view |-> [status |-> "fault", raised |-> e], filtros |-> NoWidgets]

\* lines 270-520: what is rendered for df_filtrado
Render(df_filtrado, shown, kept) ==
    IF df_filtrado.rows = <<>>
    THEN [view |-> [status |-> "empty", widgets |-> shown,
                    df_filtrado |-> df_filtrado],
          filtros |-> kept]
    ELSE [view |-> [status |-> "kpis", widgets |-> shown,
                    df_filtrado |-> df_filtrado, kpis |-> Kpis(df_filtrado),
                    daily_volume |-> DailyVolume(df_filtrado),
                    agent_performance |-> AgentPerformance(df_filtrado)],
          filtros |-> kept]

\* lines 258-268: the values of the three widgets applied to the table
ApplyFilters(df, shown, kept) ==
    IF Len(shown.fecha_seleccionada) # 2
    THEN [view |-> [status |-> "stopped", widgets |-> shown], filtros |-> kept]
    ELSE Render(DfFiltrado(df, shown.agentes_seleccionados,
                           shown.colas_seleccionadas, shown.fecha_seleccionada),
                shown, kept)

\* lines 236-256: the three filter widgets, given their options
FilterWidgets(df, widgets, lista_agentes, lista_colas, rango) ==
    ApplyFilters(
        df,
        [lista_agentes |-> lista_agentes,
         lista_colas |-> lista_colas,
         min_fecha |-> rango[1],
         max_fecha |-> rango[2],
         agentes_seleccionados |->
            WidgetValue(widgets.agentes, lista_agentes, lista_agentes),
         colas_seleccionadas |->
            WidgetValue(widgets.colas, lista_colas, lista_colas),
         fecha_seleccionada |-> WidgetValue(widgets.fecha, rango, rango)],
        [agentes |-> WidgetKeep(widgets.agentes, lista_agentes),
         colas |-> WidgetKeep(widgets.colas, lista_colas),
         fecha |-> WidgetKeep(widgets.fecha, rango)])

\* lines 236-256: the options of the widgets; sorted() may raise, and min()
\* of no date is NaN, which st.date_input refuses
FilterOptions(df, widgets, lista_agentes, lista_colas, fechas) ==
    IF SortedRaises(lista_agentes) \/ SortedRaises(lista_colas)
    THEN FaultView("TypeError")
    ELSE IF fechas = {} THEN FaultView("StreamlitAPIException")
    ELSE FilterWidgets(df, widgets, lista_agentes, lista_colas,
                       <<Min(fechas), Max(fechas)>>)

\* lines 228-520: what the dashboard tab renders for the table of the session
\* state and the widgets' state, and the widgets' state after it (a widget
\* that is not rendered, or is rendered with other options, loses its state)
Dashboard(df, widgets) ==
    IF df = None THEN [view |-> [status |-> "welcome"], filtros |-> NoWidgets]
    ELSE FilterOptions(df, widgets, Unique(df, ColAgente), Unique(df, ColCola),
                       Dates(df))

-----------------------------------------------------------------------------
(* One run of the script, lines 170-520 *)

ReadError(uploaded_file) ==
    [kind |-> "read", file |-> uploaded_file.name, missing |-> <<>>]

ColumnErrors(errors) ==
    [i \in 1..Len(errors) |->
        [kind |-> "columns", file |-> errors[i].file,
         missing |-> errors[i].missing]]

NotReached ==
    [stage |-> "waiting", errors |-> <<>>, users_parsed |-> FALSE,
     sessions_parsed |-> FALSE, validated |-> FALSE, cleaner_called |-> FALSE,
     cleaner_ran |-> FALSE, stored |-> FALSE, result |-> None]

\* st.cache_data on clean_and_prepare_data(_df_sessions, _df_users): the
\* arguments whose names start with an underscore are left out of the key,
\* so the store has one entry; an entry is returned without running the body
CachedCleanAndPrepare(cache, df_sessions, df_users) ==
    IF cache # None THEN cache
    ELSE clean_and_prepare_data(df_sessions, df_users)

\* lines 221-226: the cleaner's result is stored, unless it raised
Store(result, log) ==
    IF IsFault(result)
    THEN [log EXCEPT !.stage = "fault", !.result = result]
    ELSE [log EXCEPT !.stage = "stored", !.stored = TRUE, !.result = result]


\* An upload tab that calls the cleaner whatever the validator returned
ValidatedOrNot(valid, df_sessions_raw, df_users_raw, cache, log) ==
    Store(CachedCleanAndPrepare(cache, df_sessions_raw, df_users_raw),
          [log EXCEPT !.validated = TRUE,
                      !.cleaner_called = TRUE,
                      !.cleaner_ran = (cache = None)])

\* lines 220-221: the cleaner is called when the tables are valid
Validated(valid, df_sessions_raw, df_users_raw, cache, log) ==
    IF ~valid.ok
    THEN [log EXCEPT !.stage = "invalid", !.errors = ColumnErrors(valid.errors)]
    ELSE Store(CachedCleanAndPrepare(cache, df_sessions_raw, df_users_raw),
               [log EXCEPT !.validated = TRUE,
                           !.cleaner_called = TRUE,
                           !.cleaner_ran = (cache = None)])

\* lines 219-220: the tables are validated when both files were read
Loaded(df_users_raw, df_sessions_raw, users_file, sessions_file, cache) ==
    IF df_users_raw = None \/ df_sessions_raw = None
    THEN [NotReached EXCEPT
            !.stage = "parse_failed",
            !.users_parsed = df_users_raw # None,
            !.sessions_parsed = df_sessions_raw # None,
            !.errors =
                (IF df_users_raw = None THEN <<ReadError(users_file)>>
                 ELSE <<>>)
                \o (IF df_sessions_raw = None
                    THEN <<ReadError(sessions_file)>> ELSE <<>>)]
    ELSE Validated(validate_dataframes(df_sessions_raw, df_users_raw),
                   df_sessions_raw, df_users_raw, cache,
                   [NotReached EXCEPT !.users_parsed = TRUE,
                                      !.sessions_parsed = TRUE])

\* lines 216-226: the pipeline of the upload tab
UploadTab(users_file, sessions_file, cache) ==
    IF users_file = None \/ sessions_file = None THEN NotReached
    ELSE Loaded(load_users_data(users_file), load_sessions_data(sessions_file),
                users_file, sessions_file, cache)

NotRendered == [status |-> "not_rendered"]

\* The log of a run keeps the fault the cleaner raised, not its table
Log(up) == [up EXCEPT !.result = IF IsFault(up.result) THEN up.result ELSE None]

\* lines 228-520 in a run that reaches them
ShowDashboard(d) ==
    /\ filtros' = d.filtros
    /\ view' = d.view

\* The script after the upload tab: st.experimental_rerun() and an exception
\* both end the run before the dashboard tab
AfterUploadTab(up, widgets) ==
    /\ run' = Log(up)
    /\ IF up.stage = "stored"
       THEN /\ cache_clean' = up.result
            /\ df_procesado' = up.result
            /\ active_tab' = "dashboard"
            /\ rerun_pending' = TRUE
            /\ filtros' = NoWidgets
            /\ view' = NotRendered
       ELSE IF up.stage = "fault"
       THEN /\ UNCHANGED <<cache_clean, df_procesado, active_tab>>
            /\ rerun_pending' = FALSE
            /\ filtros' = NoWidgets
            /\ view' = NotRendered
       ELSE /\ UNCHANGED <<cache_clean, df_procesado, active_tab>>
            /\ rerun_pending' = FALSE
            /\ ShowDashboard(Dashboard(df_procesado, widgets))

\* The script from top to bottom with these widget values, lines 170-520
ScriptRun(users_file, sessions_file, widgets) ==
    AfterUploadTab(UploadTab(users_file, sessions_file, cache_clean), widgets)

-----------------------------------------------------------------------------
(* The inputs: the lines the uploaded files are made of *)

MaxSessionRows == 2
MaxUserRows == 2

Restrict(r, cols) == [c \in cols |-> r[c]]

SessionLine(id, agente, inicio, cola, cerradas, abandonada, respuesta) ==
    (ColId :> id) @@ (ColAgente :> agente) @@ (ColInicio :> inicio)
    @@ (ColCola :> cola) @@ (ColCerradas :> cerradas)
    @@ (ColConversacion :> respuesta) @@ (ColEspera :> abandonada)
    @@ (ColRespuestas :> cerradas) @@ (ColTransferencias :> abandonada)
    @@ (ColAbandonada :> abandonada) @@ (ColTiempoRespuesta :> respuesta)
    @@ (ColTipificacion :> Txt("finished")) @@ (ColMensajesAgente :> Num(1))
    @@ (ColFin :> Txt("2024-01-03T23:59"))

UserLine(id, tipificacion, mensajes) ==
    (ColId :> id) @@ (ColTipificacion :> tipificacion)
    @@ (ColMensajesAgente :> mensajes) @@ (ColMensajesUsuario :> mensajes)
    @@ (ColMensajesBot :> Num(0))

L1 ==
    SessionLine(Txt("1"), Txt("A"), Txt("2024-01-01T10:00"), Txt("_default_"),
                Num(2), Num(0), Num(600))
L2 ==
    SessionLine(Txt("2"), Txt("A"), Txt("2024-01-01T11:00"), Txt("default"),
                Txt("1"), Txt("1"), Txt("-"))
L3 ==
    SessionLine(Txt("1"), Txt("B"), Txt("2024-01-02T09:00"), NA,
                Num(0), Num(1), Txt("abc"))
L4 ==
    SessionLine(Txt("2"), Txt("B"), Txt("sin fecha"), Str(<<" ", "ventas">>),
                Num(1), Num(0), Num(3600))
L5 ==
    SessionLine(Txt("2"), Txt("B"), Txt("2024-01-02T09:00"),
                Str(<<" ", "default", " ">>), Num(1), Num(2), NA)
L6 ==
    SessionLine(Txt("3"), NA, Txt("2024-01-03T23:59"), Str(<<"ventas", " ">>),
                Num(-1), Txt("-1"), Num(0))

L7 ==
    SessionLine(Txt("3"), Txt("A"), Txt("2024-01-03T23:59"),
                Txt("atencionAlCliente"), Txt("-"), Txt("abc"), Txt("3600"))

\* A line of an export whose queues are numbered
L8 ==
    SessionLine(Txt("4"), Txt("A"), Txt("2024-01-01T10:00"), Num(7),
                Num(1), Num(0), Num(60))

U1 == UserLine(Txt("1"), Txt("finished"), Num(5))
U2 == UserLine(Txt("2"), Txt("abandoned-by-user"), Num(2))
U3 == UserLine(Txt("1"), NA, Txt("-"))
U4 == UserLine(Txt("9"), Txt("order-placed"), Txt("abc"))

SessionLines == {L1, L2, L3, L4, L5, L6, L7, L8}
UserLines == {U1, U2, U3, U4}

\* The descriptive line some exports carry under the header
SubHeader == [c \in DOMAIN L1 |-> Txt("descripción")]

SessionsHeader == Range(required_cols_sessions) \cup {ColTipificacion}
UsersHeader == Range(cols_to_merge)

File(name, header, lines) ==
    [name |-> name, readable |-> TRUE, header |-> header,
     lines |-> [i \in 1..Len(lines) |-> Restrict(lines[i], header)]]

Unreadable(name) ==
    [name |-> name, readable |-> FALSE, header |-> {}, lines |-> <<>>]

SeqsUpTo(S, n) == UNION {[1..k -> S] : k \in 0..n}

\* read_csv infers one type per column: a queue column with a text in it
\* holds no number
WellTyped(lines) ==
    ~ /\ \E i \in 1..Len(lines) : IsNum(lines[i][ColCola])
      /\ \E i \in 1..Len(lines) : IsStr(lines[i][ColCola])

\* The sessions files a user uploads: well-formed exports, an export without
\* the typification column, one with an agent-messages column, one without
\* the queue column, and a file that cannot be read
SessionFiles ==
    {File("operatorsSessions.tsv", SessionsHeader \cup {ColFin},
          <<SubHeader>> \o ls) :
        ls \in {<<L1, L2>>, <<L3, L4, L5>>, <<L1, L5>>, <<L2, L5, L6>>,
                <<L6>>, <<L4>>}}
    \cup
    {File("operatorsSessions.tsv", SessionsHeader \ {ColTipificacion},
          <<SubHeader, L1, L2>>),
     File("operatorsSessions.tsv", SessionsHeader \cup {ColMensajesAgente},
          <<SubHeader, L1, L2>>),
     File("operatorsSessions.tsv", SessionsHeader \ {ColCola},
          <<SubHeader, L1, L2>>),
     Unreadable("operatorsSessions.tsv")}

\* The users files: two well-formed exports, an export with the three
\* validated columns only, one without the typification column, and a file
\* that cannot be read
UserFiles ==
    {File("users.tsv", UsersHeader, <<U1, U2>>),
     File("users.tsv", UsersHeader, <<U1, U3>>),
     File("users.tsv", Range(required_cols_users), <<U1, U2>>),
     File("users.tsv", UsersHeader \ {ColTipificacion}, <<U1, U2>>),
     Unreadable("users.tsv")}

\* The calendar days of the inputs, for the date picker
Calendar == {TimestampText[t][1] : t \in DOMAIN TimestampText}

-----------------------------------------------------------------------------
(* The state machine: one action per user interaction, each followed by the *)
(* script run it triggers                                                   *)

Init ==
    /\ uploaded_users = None
    /\ uploaded_sessions = None
    /\ cache_clean = None
    /\ df_procesado = None
    /\ active_tab = "upload"
    /\ rerun_pending = FALSE
    /\ filtros = NoWidgets
    /\ run = NotReached
    /\ view = [status |-> "welcome"]

UploadUsers ==
    \E f \in UserFiles :
        /\ f # uploaded_users
        /\ uploaded_users' = f
        /\ UNCHANGED uploaded_sessions
        /\ ScriptRun(f, uploaded_sessions, filtros)

UploadSessions ==
    \E f \in SessionFiles :
        /\ f # uploaded_sessions
        /\ uploaded_sessions' = f
        /\ UNCHANGED uploaded_users
        /\ ScriptRun(uploaded_users, f, filtros)

RemoveUsers ==
    /\ uploaded_users # None
    /\ uploaded_users' = None
    /\ UNCHANGED uploaded_sessions
    /\ ScriptRun(None, uploaded_sessions, filtros)

RemoveSessions ==
    /\ uploaded_sessions # None
    /\ uploaded_sessions' = None
    /\ UNCHANGED uploaded_users
    /\ ScriptRun(uploaded_users, None, filtros)

\* The run st.experimental_rerun() asked for
Rerun ==
    /\ rerun_pending
    /\ UNCHANGED <<uploaded_users, uploaded_sessions>>
    /\ ScriptRun(uploaded_users, uploaded_sessions, filtros)

WidgetsShown == view.status \in {"stopped", "empty", "kpis"}

SelectAgentes ==
    /\ WidgetsShown
    /\ \E sel \in SUBSET view.widgets.lista_agentes :
        /\ UNCHANGED <<uploaded_users, uploaded_sessions>>
        /\ ScriptRun(uploaded_users, uploaded_sessions,
                     [filtros EXCEPT !.agentes =
                        [options |-> view.widgets.lista_agentes,
                         value |-> sel]])

SelectColas ==
    /\ WidgetsShown
    /\ \E sel \in SUBSET view.widgets.lista_colas :
        /\ UNCHANGED <<uploaded_users, uploaded_sessions>>
        /\ ScriptRun(uploaded_users, uploaded_sessions,
                     [filtros EXCEPT !.colas =
                        [options |-> view.widgets.lista_colas, value |-> sel]])

\* The date picker returns one date while the range is being picked
SelectFecha ==
    /\ WidgetsShown
    /\ \E a, b \in Calendar :
        /\ view.widgets.min_fecha <= a
        /\ a <= b
        /\ b <= view.widgets.max_fecha
        /\ \E sel \in {<<a>>, <<a, b>>} :
            /\ UNCHANGED <<uploaded_users, uploaded_sessions>>
            /\ ScriptRun(uploaded_users, uploaded_sessions,
                         [filtros EXCEPT !.fecha =
                            [options |-> <<view.widgets.min_fecha,
                                           view.widgets.max_fecha>>,
                             value |-> sel]])

Next ==
    \/ UploadUsers
    \/ UploadSessions
    \/ RemoveUsers
    \/ RemoveSessions
    \/ Rerun
    \/ SelectAgentes
    \/ SelectColas
    \/ SelectFecha

Spec == Init /\ [][Next]_vars

\* The headers of the exports: as expected, with one column missing, with
\* one more column
SessionHeaders ==
    {SessionsHeader, SessionsHeader \cup {ColFin},
     SessionsHeader \cup {ColMensajesAgente}}
    \cup {SessionsHeader \ {c} : c \in SessionsHeader}

UserHeaders ==
    {UsersHeader, Range(required_cols_users)}
    \cup {UsersHeader \ {c} : c \in Range(required_cols_users)}

\* The pipeline on every pair of exports of at most MaxSessionRows and
\* MaxUserRows lines under the expected headers, and on every pair of
\* headers: both files are in the uploaders and the run that processes them
\* is about to start
PipelineInputs ==
    {<<File("operatorsSessions.tsv", SessionsHeader, <<SubHeader>> \o ls),
       File("users.tsv", UsersHeader, us)>> :
        ls \in {t \in SeqsUpTo(SessionLines, MaxSessionRows) : WellTyped(t)},
        us \in SeqsUpTo(UserLines, MaxUserRows)}
    \cup
    {<<File("operatorsSessions.tsv", hs, <<SubHeader, L1, L2>>),
       File("users.tsv", hu, <<U1, U2>>)>> :
        hs \in SessionHeaders, hu \in UserHeaders}

InitPipeline ==
    /\ \E input \in PipelineInputs :
        /\ uploaded_sessions = input[1]
        /\ uploaded_users = input[2]
    /\ cache_clean = None
    /\ df_procesado = None
    /\ active_tab = "upload"
    /\ rerun_pending = TRUE
    /\ filtros = NoWidgets
    /\ run = NotReached
    /\ view = NotRendered

NextPipeline ==
    \/ Rerun
    \/ RemoveUsers
    \/ RemoveSessions

SpecPipeline == InitPipeline /\ [][NextPipeline]_vars

-----------------------------------------------------------------------------
(* What the claims speak about *)

BothUploaded == uploaded_users # None /\ uploaded_sessions # None

\* The last run went through the upload tab's pipeline with the files that
\* are in the uploaders
PipelineRan == BothUploaded /\ run.stage # "waiting"

CurrentUsers == load_users_data(uploaded_users)
CurrentSessions == load_sessions_data(uploaded_sessions)

BothParsed == BothUploaded /\ CurrentUsers # None /\ CurrentSessions # None

ParsedAndValid ==
    BothParsed /\ validate_dataframes(CurrentSessions, CurrentUsers).ok

\* The table an uncached run of the cleaner gives for the uploaded files
Uncached == clean_and_prepare_data(CurrentSessions, CurrentUsers)

\* The last run stored the table the cleaner's body made of the uploaded files
Cleaned == PipelineRan /\ run.stage = "stored" /\ run.cleaner_ran

-----------------------------------------------------------------------------
\* C1 (refuted by the code): after any sequence of uploads, the processed
\* table stored for the uploaded pair of files is the table an uncached run
\* of clean_and_prepare_data on that pair gives.
C1_CacheDoesNotAlterResults ==
    (PipelineRan /\ run.stage = "stored" /\ IsTable(Uncached))
        => df_procesado = Uncached

-----------------------------------------------------------------------------
\* C2: a run calls the cleaner, or stores a table, only when both files
\* parsed and validate_dataframes returned true; a run whose files do not
\* parse or do not validate stores nothing and leaves the active tab alone.
C2_CleanerOnlyAfterValidation ==
    [][/\ (run'.cleaner_called \/ run'.stored) => ParsedAndValid'
       /\ (BothUploaded' /\ ~ParsedAndValid') =>
            /\ ~run'.stored
            /\ df_procesado' = df_procesado
            /\ cache_clean' = cache_clean
            /\ active_tab' = active_tab]_vars

\* A run that failed validation before anything was ever stored
C2_Witness ==
    /\ PipelineRan
    /\ run.stage = "invalid"
    /\ df_procesado = None
    /\ active_tab = "upload"

-----------------------------------------------------------------------------
\* C3 (refuted by the code): for every pair of parsed tables that passes
\* validate_dataframes, clean_and_prepare_data returns a merged table and
\* raises nothing.
C3_CleanerNeverRaises == ParsedAndValid => IsTable(Uncached)

-----------------------------------------------------------------------------
\* The twelve session columns the claim lists
ClaimedSessionColumns == Range(required_cols_sessions) \cup {ColFin}

MissingSessions == Range(required_cols_sessions) \ CurrentSessions.cols
MissingUsers == Range(required_cols_users) \ CurrentUsers.cols

\* The files reported by st.error, each with the set of columns reported
Reported == {<<run.errors[i].file, Range(run.errors[i].missing)>> :
                i \in 1..Len(run.errors)}

\* C4 as stated (refuted): validation passes if and only if the sessions
\* table has the twelve listed columns, the session-end timestamp among
\* them, and the users table has its three.
C4_TwelveColumnsRequired ==
    (PipelineRan /\ BothParsed) =>
        (run.stage # "invalid" <=>
            /\ ClaimedSessionColumns \subseteq CurrentSessions.cols
            /\ Range(required_cols_users) \subseteq CurrentUsers.cols)

\* C4 as amended: validation passes if and only if the sessions table has
\* the eleven columns of required_cols_sessions (the session-end timestamp
\* is not one) and the users table has its three; each file that lacks
\* columns is reported with exactly the columns it lacks, the users file
\* also when the sessions file fails.
C4_ElevenColumnsRequired ==
    (PipelineRan /\ BothParsed) =>
        /\ run.stage # "invalid" <=>
            /\ Range(required_cols_sessions) \subseteq CurrentSessions.cols
            /\ Range(required_cols_users) \subseteq CurrentUsers.cols
        /\ run.stage = "invalid" =>
            Reported =
                {<<"Sesiones de Agentes", MissingSessions>> :
                    x \in IF MissingSessions = {} THEN {} ELSE {1}}
                \cup {<<"Conversaciones de Usuarios", MissingUsers>> :
                    x \in IF MissingUsers = {} THEN {} ELSE {1}}

\* Both files lack a column and both are reported
C4_Witness ==
    /\ PipelineRan
    /\ run.stage = "invalid"
    /\ MissingSessions # {}
    /\ MissingUsers # {}
    /\ Len(run.errors) = 2

-----------------------------------------------------------------------------
\* The lines of the uploaded sessions file whose start timestamp parses
Retained ==
    {i \in 1..Len(CurrentSessions.rows) :
        ToDatetime(CurrentSessions.rows[i][ColInicio]) # NA}

\* The number of user rows with this session id
MatchCount(id) ==
    Cardinality({j \in 1..Len(CurrentUsers.rows) :
                    CurrentUsers.rows[j][ColId] = id})

\* The merged rows that carry the session fields of line i of the sessions file
MergedRowsOf(i) ==
    {k \in 1..Len(df_procesado.rows) :
        \A c \in Range(required_cols_sessions) \ {ColInicio, ColCola} :
            df_procesado.rows[k][c] = CleanSessionRow(CurrentSessions.rows[i])[c]}

\* The name of the users' agent-message column in the merged table
MergedMensajesAgente ==
    IF ColMensajesAgente \in CurrentSessions.cols
    THEN SuffixUser[ColMensajesAgente] ELSE ColMensajesAgente

\* C5: the merge is a left join: the merged table has at least as many rows
\* as the cleaned sessions table, as many if and only if no session id
\* matches more than one user row; every cleaned session row appears, with
\* null typification and message counts when no user row matches it.
C5_LeftJoin ==
    Cleaned =>
        /\ Len(df_procesado.rows) >= Cardinality(Retained)
        /\ Len(df_procesado.rows) = Cardinality(Retained) <=>
            \A i \in Retained : MatchCount(CurrentSessions.rows[i][ColId]) <= 1
        /\ \A i \in Retained :
            /\ MergedRowsOf(i) # {}
            /\ MatchCount(CurrentSessions.rows[i][ColId]) = 0 =>
                \A k \in MergedRowsOf(i) :
                    \A c \in {ColTipificacionUser, MergedMensajesAgente,
                              ColMensajesUsuario, ColMensajesBot} :
                        df_procesado.rows[k][c] = NA

\* One session matches two user rows and another matches none
C5_Witness ==
    /\ Cleaned
    /\ \E i \in Retained : MatchCount(CurrentSessions.rows[i][ColId]) = 2
    /\ \E i \in Retained : MatchCount(CurrentSessions.rows[i][ColId]) = 0

-----------------------------------------------------------------------------
\* C6 as stated (refuted): for every non-empty filtered set the abandon rate
\* is in [0, 100], and it is 0 exactly when the total of closed conversations
\* is 0.
C6_RateWithinZeroAndHundred ==
    view.status = "kpis" =>
        /\ 0 <= view.kpis.abandon_rate.num
        /\ view.kpis.abandon_rate.num <= 100 * view.kpis.abandon_rate.den
        /\ view.kpis.abandon_rate.num = 0 <=> view.kpis.total_conversations = 0

\* C6 as amended: for every non-empty filtered set the abandon rate is 0
\* whenever the total of closed conversations is 0 or less, whatever the
\* abandon counts; otherwise it is 100 times the total of abandons over the
\* total of closed conversations, which is in [0, 100] when the total of
\* abandons is between 0 and the total of closed conversations, and above
\* 100 or below 0 when it is not.
C6_RateIsGuardedRatio ==
    view.status = "kpis" =>
        LET closed == SumCol(view.df_filtrado, ColCerradas)
            abandons == SumCol(view.df_filtrado, ColAbandonada)
            rate == view.kpis.abandon_rate
        IN  /\ rate.den > 0
            /\ closed <= 0 => rate.num = 0
            /\ closed > 0 => rate.num * closed = 100 * abandons * rate.den
            /\ (closed > 0 /\ 0 <= abandons /\ abandons <= closed) =>
                (0 <= rate.num /\ rate.num <= 100 * rate.den)
            /\ (closed > 0 /\ abandons > closed) => rate.num > 100 * rate.den
            /\ (closed > 0 /\ abandons < 0) => rate.num < 0

\* No closed conversation and one abandon: the rate is 0
C6_Witness ==
    /\ view.status = "kpis"
    /\ view.kpis.total_conversations = 0
    /\ view.kpis.total_abandons > 0
    /\ view.kpis.abandon_rate.num = 0

-----------------------------------------------------------------------------
\* The six numeric session fields the claim lists
ClaimedNumericColumns ==
    {ColCerradas, ColConversacion, ColEspera, ColRespuestas, ColTransferencias,
     ColAbandonada}

\* The number a raw cell stands for, if any
IsNumber(c) ==
    IsNum(c) \/ (IsStr(c) /\ Len(c.str) = 1 /\ c.str[1] \in DOMAIN NumericText)

NumberOf(c) == IF IsNum(c) THEN c.num ELSE NumericText[c.str[1]]

\* C7 as stated (refuted): after cleaning, the six numeric fields of every
\* retained session row are non-negative numbers, none "-" and none missing.
C7_NonNegativeCounts ==
    Cleaned =>
        \A k \in 1..Len(df_procesado.rows) : \A c \in ClaimedNumericColumns :
            /\ IsNum(df_procesado.rows[k][c])
            /\ df_procesado.rows[k][c].num >= 0

\* C7 as amended: after cleaning, the six numeric fields of every retained
\* session row are numbers, none "-" and none missing: the number the raw
\* value stands for, negative if that is negative, and 0 when the raw value
\* is "-", missing or not a number.
C7_CountsAreNumbers ==
    Cleaned =>
        /\ \A k \in 1..Len(df_procesado.rows) : \A c \in ClaimedNumericColumns :
            IsNum(df_procesado.rows[k][c])
        /\ \A k \in 1..Len(df_procesado.rows) : \E i \in Retained :
            /\ k \in MergedRowsOf(i)
            /\ \A c \in ClaimedNumericColumns :
                LET raw == CurrentSessions.rows[i][c]
                IN  df_procesado.rows[k][c] =
                        Num(IF IsNumber(raw) THEN NumberOf(raw) ELSE 0)
        /\ \A i \in Retained : MergedRowsOf(i) # {}

\* A retained row with "-" and with a text that is no number in its counts
C7_Witness ==
    /\ Cleaned
    /\ \E i \in Retained :
        /\ CurrentSessions.rows[i][ColCerradas] = Txt("-")
        /\ CurrentSessions.rows[i][ColAbandonada] = Txt("abc")
        /\ \E k \in MergedRowsOf(i) :
            /\ df_procesado.rows[k][ColCerradas] = Num(0)
            /\ df_procesado.rows[k][ColAbandonada] = Num(0)

-----------------------------------------------------------------------------
\* The rows of df_filtrado with a mean response time
ValidResponseTimes ==
    {k \in 1..Len(view.df_filtrado.rows) :
        IsNum(view.df_filtrado.rows[k][ColTiempoRespuesta])}

\* C8: the cleaner leaves a mean response time that is "-" or not a number
\* missing, not 0; the mean is taken over the rows that have one; when no
\* row of the filtered set has one, the metric reads N/A, never 0.
C8_ResponseTimeMissingNotZero ==
    /\ Cleaned =>
        \A k \in 1..Len(df_procesado.rows) : \E i \in Retained :
            /\ k \in MergedRowsOf(i)
            /\ LET raw == CurrentSessions.rows[i][ColTiempoRespuesta]
               IN  df_procesado.rows[k][ColTiempoRespuesta] =
                      IF IsNumber(raw) THEN Num(NumberOf(raw)) ELSE NA
    /\ view.status = "kpis" =>
        /\ ValidResponseTimes = {} =>
            /\ view.kpis.avg_response_time_seconds = NA
            /\ view.kpis.response_time_metric = [text |-> "N/A"]
        /\ ValidResponseTimes # {} =>
            /\ view.kpis.avg_response_time_seconds.count =
                    Cardinality(ValidResponseTimes)
            /\ view.kpis.avg_response_time_seconds.sum =
                    SumCol(view.df_filtrado, ColTiempoRespuesta)

\* KPIs over rows none of which has a mean response time
C8_Witness ==
    /\ view.status = "kpis"
    /\ ValidResponseTimes = {}
    /\ view.kpis.response_time_metric = [text |-> "N/A"]

-----------------------------------------------------------------------------
\* C9: a session row whose start timestamp does not parse is in no merged
\* row, and so in no filtered row the KPIs and the groupings are made of,
\* whatever the filters.
C9_UnparsedStartDropped ==
    /\ df_procesado # None =>
        \A k \in 1..Len(df_procesado.rows) :
            /\ IsTs(df_procesado.rows[k][ColInicio])
            /\ df_procesado.rows[k][ColFecha] =
                    Date(df_procesado.rows[k][ColInicio].ts[1])
    /\ Cleaned =>
        \A k \in 1..Len(df_procesado.rows) : \E i \in Retained :
            k \in MergedRowsOf(i)
    /\ view.status \in {"empty", "kpis"} =>
        Range(view.df_filtrado.rows) \subseteq Range(df_procesado.rows)

\* The cleaner ran on a file with a line whose start does not parse and with
\* lines whose start does
C9_Witness ==
    /\ Cleaned
    /\ Retained # {}
    /\ Retained # 1..Len(CurrentSessions.rows)

-----------------------------------------------------------------------------
\* C10: filtering the processed table with all its agent names, all its
\* queue names and the range from its first to its last start date keeps
\* every row.
C10_FullSelectionKeepsAllRows ==
    (/\ view.status \in {"empty", "kpis"}
     /\ view.widgets.agentes_seleccionados =
            {df_procesado.rows[k][ColAgente] : k \in 1..Len(df_procesado.rows)}
     /\ view.widgets.colas_seleccionadas =
            {df_procesado.rows[k][ColCola] : k \in 1..Len(df_procesado.rows)}
     /\ \A k \in 1..Len(df_procesado.rows) :
            /\ view.widgets.fecha_seleccionada[1]
                    <= df_procesado.rows[k][ColFecha].date
            /\ df_procesado.rows[k][ColFecha].date
                    <= view.widgets.fecha_seleccionada[2])
        => Len(view.df_filtrado.rows) = Len(df_procesado.rows)

\* The full selection over a table of two agents and two dates
C10_Witness ==
    /\ view.status = "kpis"
    /\ Cardinality(view.widgets.agentes_seleccionados) = 2
    /\ view.widgets.agentes_seleccionados = view.widgets.lista_agentes
    /\ view.widgets.colas_seleccionadas = view.widgets.lista_colas
    /\ view.widgets.fecha_seleccionada =
            <<view.widgets.min_fecha, view.widgets.max_fecha>>
    /\ view.widgets.min_fecha < view.widgets.max_fecha
    /\ Len(view.df_filtrado.rows) = Len(df_procesado.rows)

-----------------------------------------------------------------------------
\* A text without its leading and trailing blanks
NonBlank(t) == {i \in 1..Len(t) : t[i] # " "}

Trimmed(t) ==
    IF NonBlank(t) = {} THEN <<>>
    ELSE SubSeq(t, Min(NonBlank(t)), Max(NonBlank(t)))

\* The queue name the claim gives a raw value: the sentinel for a null, then
\* trimmed, then translated by exact match, anything else unchanged
ClaimedCola(c) ==
    IF c = NA THEN Txt("Sin Cola")
    ELSE IF ~IsStr(c) THEN c
    ELSE IF Trimmed(c.str) \in DOMAIN queue_translations
    THEN Str(queue_translations[Trimmed(c.str)])
    ELSE Str(Trimmed(c.str))

\* The claimed queue names of the merged rows, in the order of the file
ClaimedColas ==
    Concat([i \in 1..Len(CurrentSessions.rows) |->
        IF i \notin Retained THEN <<>>
        ELSE IF MatchCount(CurrentSessions.rows[i][ColId]) <= 1
        THEN <<ClaimedCola(CurrentSessions.rows[i][ColCola])>>
        ELSE [j \in 1..MatchCount(CurrentSessions.rows[i][ColId]) |->
                ClaimedCola(CurrentSessions.rows[i][ColCola])]])

\* C11 (refuted by the code): in every merged row the queue name is not null
\* and is the raw value with a null replaced by "Sin Cola", then trimmed,
\* then translated by exact match, unmapped values unchanged.
C11_QueueCanonical ==
    Cleaned =>
        /\ \A k \in 1..Len(df_procesado.rows) :
            df_procesado.rows[k][ColCola] # NA
        /\ Column(df_procesado, ColCola) = ClaimedColas

\* The same on the exports whose queue column holds texts: there the claim
\* holds
C11_TextQueuesCanonical ==
    (Cleaned /\ \A i \in 1..Len(CurrentSessions.rows) :
                    ~IsNum(CurrentSessions.rows[i][ColCola]))
        => C11_QueueCanonical

-----------------------------------------------------------------------------
\* The total of a set of rollup entries
RECURSIVE SumTotals(_)
SumTotals(entries) ==
    IF entries = {} THEN 0
    ELSE LET e == CHOOSE x \in entries : TRUE
         IN  e.total_conversations + SumTotals(entries \ {e})

\* What the daily rollup shows for a day
RollupAt(d) == SumTotals({e \in view.daily_volume : e.Fecha = Date(d)})

\* The filtered rows that have an end timestamp, and its day
WithEnd ==
    {i \in 1..Len(view.df_filtrado.rows) :
        /\ ColFin \in view.df_filtrado.cols
        /\ ToDatetime(view.df_filtrado.rows[i][ColFin]) # NA}

EndDay(i) == ToDatetime(view.df_filtrado.rows[i][ColFin]).ts[1]

\* C12 as stated (refuted): the daily rollup over the filtered rows is, for
\* each start date, the number of distinct session ids with that start date
\* and, for each end date, the number of distinct session ids with that end
\* date, the rows without an end date left out.
C12_DistinctIdsByDay ==
    view.status = "kpis" =>
        /\ \A i \in 1..Len(view.df_filtrado.rows) :
            RollupAt(view.df_filtrado.rows[i][ColFecha].date) =
                Cardinality({view.df_filtrado.rows[j][ColId] :
                    j \in {k \in 1..Len(view.df_filtrado.rows) :
                            view.df_filtrado.rows[k][ColFecha] =
                                view.df_filtrado.rows[i][ColFecha]}})
        /\ \A i \in WithEnd :
            RollupAt(EndDay(i)) =
                Cardinality({view.df_filtrado.rows[j][ColId] :
                    j \in {k \in WithEnd : EndDay(k) = EndDay(i)}})

\* C12 as amended: the daily rollup over the filtered rows has one entry for
\* each pair of start date and agent name of the filtered rows that have an
\* agent name, and no other; the entry is the sum of the closed-conversation
\* counts of the filtered rows with that start date and agent.  There is no
\* rollup by end date.
C12_ClosedByStartDayAndAgent ==
    view.status = "kpis" =>
        /\ \A e \in view.daily_volume :
            /\ \E i \in 1..Len(view.df_filtrado.rows) :
                /\ view.df_filtrado.rows[i][ColFecha] = e.Fecha
                /\ view.df_filtrado.rows[i][ColAgente] = e.Nombre_Agente
            /\ e.total_conversations =
                SumSeq([i \in 1..Len(view.df_filtrado.rows) |->
                    IF /\ view.df_filtrado.rows[i][ColFecha] = e.Fecha
                       /\ view.df_filtrado.rows[i][ColAgente] = e.Nombre_Agente
                    THEN view.df_filtrado.rows[i][ColCerradas].num ELSE 0])
        /\ \A i \in 1..Len(view.df_filtrado.rows) :
            view.df_filtrado.rows[i][ColAgente] # NA =>
                Cardinality({e \in view.daily_volume :
                    /\ e.Fecha = view.df_filtrado.rows[i][ColFecha]
                    /\ e.Nombre_Agente = view.df_filtrado.rows[i][ColAgente]}) = 1
        /\ (\A i \in 1..Len(view.df_filtrado.rows) :
                view.df_filtrado.rows[i][ColAgente] # NA) =>
            SumTotals(view.daily_volume) = view.kpis.total_conversations

\* A day with two sessions and three closed conversations, ending another day
C12_Witness ==
    /\ view.status = "kpis"
    /\ \E e \in view.daily_volume :
        /\ e.total_conversations = 3
        /\ Cardinality({view.df_filtrado.rows[j][ColId] :
                j \in {k \in 1..Len(view.df_filtrado.rows) :
                        view.df_filtrado.rows[k][ColFecha] = e.Fecha}}) = 2
        /\ \A i \in WithEnd : Date(EndDay(i)) # e.Fecha
    /\ WithEnd # {}

-----------------------------------------------------------------------------
\* The dashboard tab presents widgets or figures made of the processed table
PresentsTable == view.status \in {"stopped", "empty", "kpis"}

\* C13 (refuted by the code): with a pair of files uploaded, the dashboard
\* presents a processed table only if it is the table of that pair: never
\* the table of an earlier upload, in particular not when the files that
\* are uploaded now fail to parse or fail validation.
C13_NoTableOfEarlierUpload ==
    (BothUploaded /\ PresentsTable) =>
        /\ ParsedAndValid
        /\ df_procesado = Uncached

-----------------------------------------------------------------------------
\* The number of merged rows of line i of the sessions file
Mult(i) ==
    IF MatchCount(CurrentSessions.rows[i][ColId]) = 0 THEN 1
    ELSE MatchCount(CurrentSessions.rows[i][ColId])

\* The count a raw cell stands for, 0 if none
CountOf(c) == IF IsNumber(c) THEN NumberOf(c) ELSE 0

\* The agent messages of all the user rows of the session of line i
MessagesOf(i) ==
    SumSeq([j \in 1..Len(CurrentUsers.rows) |->
        IF CurrentUsers.rows[j][ColId] = CurrentSessions.rows[i][ColId]
        THEN CountOf(CurrentUsers.rows[j][ColMensajesAgente]) ELSE 0])

\* The closed conversations of the sessions file, each session once
ClosedOnce ==
    SumSeq([i \in 1..Len(CurrentSessions.rows) |->
        IF i \in Retained THEN CountOf(CurrentSessions.rows[i][ColCerradas])
        ELSE 0])

\* The sums a dashboard shows count a session once for each of its merged rows
SumsCountEveryRow(shown) ==
    shown.status = "kpis" =>
        /\ shown.kpis.total_conversations =
            SumSeq([i \in 1..Len(CurrentSessions.rows) |->
                IF i \in Retained
                THEN Mult(i) * CountOf(CurrentSessions.rows[i][ColCerradas])
                ELSE 0])
        /\ ~IsFault(shown.agent_performance) =>
            \A e \in shown.agent_performance.rows :
                e.total_messages =
                    SumSeq([i \in 1..Len(CurrentSessions.rows) |->
                        IF /\ i \in Retained
                           /\ CurrentSessions.rows[i][ColAgente] = e.Nombre_Agente
                        THEN MessagesOf(i) ELSE 0])

CountedTwice(shown) ==
    /\ shown.status = "kpis"
    /\ shown.kpis.total_conversations > ClosedOnce
    /\ ~IsFault(shown.agent_performance)
    /\ \E e \in shown.agent_performance.rows : e.total_messages > 0

====
